---- MODULE Spec2Model ----
(***************************************************************************)
(* Neon Dice 2000 (Pink3Ddice): the die controller of src/physics/dice.js  *)
(* and the roll / frame handlers of src/main.js.                           *)
(*                                                                         *)
(* Numbers.  Lengths, velocities and impulses are fixed-point integers in  *)
(* units of 1/Scale, so 0.1 is Scale \div 10.  An orientation is an        *)
(* integer quaternion q standing for the unit quaternion q/|q|; a vector   *)
(* rotated by it is kept multiplied by Norm(q) = |q|^2, which leaves every *)
(* comparison of dot products unchanged.                                   *)
(***************************************************************************)
EXTENDS Integers, Sequences, FiniteSets, TLC

VARIABLES
  app,          \* which entry point runs: "main" (src/main.js) or "alt" (unnamed/part_006)
  faceNumbers,  \* per die: the faceNumbers array of createDice
  body,         \* per die: the Rapier rigid body (translation, rotation, linvel, angvel)
  mesh,         \* per die: diceMesh.position and diceMesh.quaternion
  light,        \* per die: pointLight.position
  last,         \* the last handler that ran, and the Math.random() values it drew
  calls,        \* the calls the last handler made, in order, with the body after each
  result,       \* the last query made on a die controller and what it returned
  browser,      \* the page: the callbacks registered with it and the event it dispatched last
  diceFaceCache, \* textures.js: the module's cache object, cache key -> texture
  textureCalls, \* textures.js: the last createDiceFaceTexture call and the textures generated so far
  loader,       \* loader.js: where loadDependencies stands, the import() requests made, the outcome
  probe,        \* world.js: a die pushed across the physics world, and what it met
  debug,        \* config.js: PHYSICS.dice.debug
  logged,       \* the log() calls the last handler's update() made: die and value
  screen,       \* the page's #loading element: its display style and what it shows
  registered    \* the callbacks initApp has registered with the page

vars == <<app, faceNumbers, body, mesh, light, last, calls, result,
          browser, diceFaceCache, textureCalls, loader, probe,
          debug, logged, screen, registered>>

\* the state of the modules a die controller does not touch
assetVars == <<diceFaceCache, textureCalls, loader, probe, debug, screen, registered>>

----------------------------------------------------------------------------
(* Bounds of the model *)

\* orientations: integer quaternions with components in -MaxQ..MaxQ
MaxQ == 2
\* queried speeds: velocity components are 0..MaxV steps of 0.05
MaxV == 4
\* Math.random(): at most MaxHigh calls of one roll, made in a row, return 0.5
\* and the others 0
MaxHigh == 1
\* createDiceFaceTexture is called with the face values 1..MaxValue
MaxValue == 3
\* at most MaxGenerated textures are generated for one face value and color
MaxGenerated == 2
\* a die is pushed by up to MaxHeading units per step along X and along Z
MaxHeading == 2

----------------------------------------------------------------------------
(* Configuration *)

Scale == 4 * 10

DICE_COLORS == <<16711935, 65535>>

Dice == 0 .. (Len(DICE_COLORS) - 1)

\* PHYSICS.floorSize.y, the half height of the floor collider centred at y = 0
floorSizeY == Scale \div 10

----------------------------------------------------------------------------
(* JavaScript values *)

Num(n) == [type |-> "number", val |-> n]

Undefined == [type |-> "undefined", val |-> 0]

\* a JS array literal, indexed from 0
JsArray(s) == [i \in 0 .. (Len(s) - 1) |-> s[i + 1]]

\* a[i]: undefined outside the array
ArrayGet(a, i) == IF i \in DOMAIN a THEN Num(a[i]) ELSE Undefined

\* o.p: undefined when the object has no such property
GetProp(o, p) == IF p \in DOMAIN o THEN Num(o[p]) ELSE Undefined

\* a < b on JS values: undefined converts to NaN and every comparison with NaN is false
JsLess(a, b) == a.type = "number" /\ b.type = "number" /\ a.val < b.val

----------------------------------------------------------------------------
(* Vectors and quaternions *)

Vector3(x, y, z) == [x |-> x, y |-> y, z |-> z]

Quaternion(x, y, z, w) == [x |-> x, y |-> y, z |-> z, w |-> w]

ZeroVector == Vector3(0, 0, 0)

IdentityQuaternion == Quaternion(0, 0, 0, 1)

Norm(q) == q.x * q.x + q.y * q.y + q.z * q.z + q.w * q.w

dot(a, b) == a.x * b.x + a.y * b.y + a.z * b.z

\* THREE.Vector3.applyQuaternion: v + w*t + qv x t with t = 2 (qv x v); for the
\* unit quaternion q/|q| the products carry 1/Norm(q), so this is Norm(q) * v'
applyQuaternion(v, q) ==
  LET tx == 2 * (q.y * v.z - q.z * v.y)
      ty == 2 * (q.z * v.x - q.x * v.z)
      tz == 2 * (q.x * v.y - q.y * v.x)
  IN Vector3(Norm(q) * v.x + q.w * tx + q.y * tz - q.z * ty,
             Norm(q) * v.y + q.w * ty + q.z * tx - q.x * tz,
             Norm(q) * v.z + q.w * tz + q.x * ty - q.y * tx)

Orientations ==
  {q \in [x : -MaxQ .. MaxQ, y : -MaxQ .. MaxQ, z : -MaxQ .. MaxQ, w : -MaxQ .. MaxQ] :
     Norm(q) > 0}

----------------------------------------------------------------------------
(* createDice: the face assignment and getCurrentValue *)

StandardFacesSwapped == JsArray(<<1, 2, 3, 4, 5, 6>>)

\* const faceNumbers = [1, 6, 2, 5, 3, 4]  (right, left, top, bottom, front, back)
StandardFaces == JsArray(<<1, 6, 2, 5, 3, 4>>)

normals ==
  JsArray(<<Vector3(1, 0, 0), Vector3(-1, 0, 0),
            Vector3(0, 1, 0), Vector3(0, -1, 0),
            Vector3(0, 0, 1), Vector3(0, 0, -1)>>)

upWorld == Vector3(0, 1, 0)

\* normals.forEach((normal, index) => { if (alignment > maxAlignment) ... }) from
\* index i on, carrying [maxAlignment, faceIndex]
RECURSIVE forEachNormal(_, _, _)
forEachNormal(upVector, i, acc) ==
  IF i \notin DOMAIN normals THEN acc
  ELSE LET alignment == dot(upVector, normals[i])
       IN forEachNormal(upVector, i + 1,
            IF alignment > acc.maxAlignment
              THEN [maxAlignment |-> alignment, faceIndex |-> i]
              ELSE acc)

RECURSIVE forEachNormalOffByOne(_, _, _)
forEachNormalOffByOne(upVector, i, acc) ==
  IF i \notin DOMAIN normals THEN acc
  ELSE LET alignment == dot(upVector, normals[i])
       IN forEachNormalOffByOne(upVector, i + 1,
            IF alignment > acc.maxAlignment
              THEN [maxAlignment |-> alignment, faceIndex |-> i + 1]
              ELSE acc)

getCurrentValueOffByOne(quaternion, faces) ==
  LET upVector == applyQuaternion(upWorld, quaternion)
      start == [maxAlignment |-> (0 - 1) * Norm(quaternion), faceIndex |-> 0]
  IN ArrayGet(faces, forEachNormalOffByOne(upVector, 0, start).faceIndex)

\* getCurrentValue() of a die whose mesh has this quaternion and whose closure
\* holds this faceNumbers array; maxAlignment starts at -1
getCurrentValue(quaternion, faces) ==
  LET upVector == applyQuaternion(upWorld, quaternion)
      start == [maxAlignment |-> (0 - 1) * Norm(quaternion), faceIndex |-> 0]
  IN ArrayGet(faces, forEachNormal(upVector, 0, start).faceIndex)

----------------------------------------------------------------------------
(* createDice: the die controller *)

\* RAPIER.RigidBodyDesc.dynamic().setTranslation(0, 5, 0): a new body does not
\* rotate or move
newBody ==
  [translation |-> Vector3(0, 5 * Scale, 0), rotation |-> IdentityQuaternion,
   linvel |-> ZeroVector, angvel |-> ZeroVector]

\* new THREE.Mesh(geometry, materials): at the origin, not rotated
newMesh == [position |-> ZeroVector, quaternion |-> IdentityQuaternion]

velocityThreshold == Scale \div 10

angularVelocityThreshold == Scale \div 10

\* the first half of update(): copy the body's pose to the mesh
updateMesh(b) == [position |-> b.translation, quaternion |-> b.rotation]

updateLightNotRaised(m) == m.position

\* pointLight.position.copy(diceMesh.position); pointLight.position.y += 2
updateLight(m) == [m.position EXCEPT !.y = @ + 2 * Scale]

resetUpright(b, x, y, z) ==
  [b EXCEPT !.translation = Vector3(x, y, z), !.rotation = IdentityQuaternion,
            !.linvel = ZeroVector, !.angvel = ZeroVector]

\* reset(x, y, z): setTranslation, setLinvel(0), setAngvel(0)
reset(b, x, y, z) ==
  [b EXCEPT !.translation = Vector3(x, y, z), !.linvel = ZeroVector, !.angvel = ZeroVector]

\* applyImpulse(x, y, z): the engine adds the impulse to the body's linear
\* velocity (the unit of impulse taken so that the body's mass is 1)
applyImpulse(b, x, y, z) ==
  [b EXCEPT !.linvel = Vector3(@.x + x, @.y + y, @.z + z)]

\* applyTorque(x, y, z): body.applyTorqueImpulse adds to the angular velocity
applyTorque(b, x, y, z) ==
  [b EXCEPT !.angvel = Vector3(@.x + x, @.y + y, @.z + z)]

\* isAtRest(): body.linvel() and body.angvel() are RAPIER vectors {x, y, z};
\* the code reads their property `length`
isAtRest(b) ==
  /\ JsLess(GetProp(b.linvel, "length"), Num(velocityThreshold))
  /\ JsLess(GetProp(b.angvel, "length"), Num(angularVelocityThreshold))

\* getValue()
getValue(m, faces) == getCurrentValue(m.quaternion, faces)

\* the end of update(), on die d with the mesh synchronised to m:
\* if (PHYSICS.dice.debug) { if (this.isAtRest()) { log(`Dice value: ${getCurrentValue()}`) } }
updateLogs(flag, b, m, faces, d) ==
  IF flag /\ isAtRest(b)
  THEN <<[die |-> d, value |-> getCurrentValue(m.quaternion, faces)]>>
  ELSE <<>>

----------------------------------------------------------------------------
(* The record of calls and of queries *)

NoDie == 0 - 1

Handler(name, draws) == [handler |-> name, draws |-> draws]

Call(op, die, args, after) == [op |-> op, die |-> die, args |-> args, after |-> after]

NoResult == [op |-> "none", die |-> NoDie, value |-> Undefined, atRest |-> FALSE, again |-> FALSE]

\* again: the query before this one was the same query on the same die, and
\* nothing else was called in between
ValueResult(d, v) ==
  [op |-> "getValue", die |-> d, value |-> v, atRest |-> FALSE,
   again |-> (result.op = "getValue" /\ result.die = d)]

RestResult(d, r) ==
  [op |-> "isAtRest", die |-> d, value |-> Undefined, atRest |-> r,
   again |-> (result.op = "isAtRest" /\ result.die = d)]

\* the page: whether the timer of setTimeout(rollDice, 500) is still pending,
\* and the event dispatched last ("none", "click", "touchstart", "timeout",
\* "frame"); the two listeners stay registered and every frame requests the next
Page(timer, event) == [timer |-> timer, event |-> event]

\* the callbacks initApp registers: the click, touchstart and resize listeners,
\* the timer of the first roll, and the frame callback of animate()
Callbacks == {"click", "touchstart", "timeout", "frame", "resize"}

\* the #loading element: style.display, and what it contains
Screen(display, content) == [display |-> display, content |-> content]

\* what the element shows until showError replaces it: the progress bar and
\* the text that trackProgress writes
ProgressBar == [title |-> "Loading", details |-> "progress"]

\* the element as the page is loaded
LoadingScreen == Screen("block", ProgressBar)

----------------------------------------------------------------------------
(* Queries on a die controller, as the application logic may make them *)

GetValueInverting(d) ==
  /\ result' = ValueResult(d, getValue(mesh[d], faceNumbers[d]))
  /\ mesh' = [mesh EXCEPT
       ![d].quaternion = Quaternion(0 - @.x, 0 - @.y, 0 - @.z, @.w)]
  /\ UNCHANGED <<app, faceNumbers, body, light, last, calls, browser, logged, assetVars>>

\* die.getValue()
GetValue(d) ==
  /\ result' = ValueResult(d, getValue(mesh[d], faceNumbers[d]))
  /\ UNCHANGED <<app, faceNumbers, body, mesh, light, last, calls, browser, logged, assetVars>>

IsAtRestSleeping(d) ==
  /\ result' = RestResult(d, isAtRest(body[d]))
  /\ body' = [body EXCEPT ![d].linvel = ZeroVector, ![d].angvel = ZeroVector]
  /\ UNCHANGED <<app, faceNumbers, mesh, light, last, calls, browser, logged, assetVars>>

\* die.isAtRest()
IsAtRest(d) ==
  /\ result' = RestResult(d, isAtRest(body[d]))
  /\ UNCHANGED <<app, faceNumbers, body, mesh, light, last, calls, browser, logged, assetVars>>

\* die.update(), called on one die
Update(d) ==
  /\ mesh' = [mesh EXCEPT ![d] = updateMesh(body[d])]
  /\ light' = [light EXCEPT ![d] = updateLight(updateMesh(body[d]))]
  /\ last' = Handler("update", <<>>)
  /\ calls' = <<Call("update", d, ZeroVector, body[d])>>
  /\ logged' = updateLogs(debug, body[d], updateMesh(body[d]), faceNumbers[d], d)
  /\ result' = NoResult
  /\ UNCHANGED <<app, faceNumbers, body, browser, assetVars>>

----------------------------------------------------------------------------
(* graphics/textures.js: the cache of dice face textures *)

DigitChars == <<"0", "1", "2", "3", "4", "5", "6", "7", "8", "9">>

\* `${n}` of a natural number: its decimal digits, as a sequence of characters
RECURSIVE NumberToString(_)
NumberToString(n) ==
  IF n < 10 THEN <<DigitChars[n + 1]>>
  ELSE NumberToString(n \div 10) \o <<DigitChars[(n % 10) + 1]>>

\* const cacheKey = `face_${value}_${color}`
cacheKey(value, color) ==
  <<"f", "a", "c", "e", "_">> \o NumberToString(value) \o <<"_">> \o NumberToString(color)

\* const size = 256; const center = size / 2; const offset = size / 4
textureSize == 256
center == textureSize \div 2
offset == textureSize \div 4

drawPipsInOnePlace(value) ==
  [i \in 1 .. (IF value \in 1 .. 6 THEN value ELSE 1) |-> <<center - offset, center - offset>>]

\* the drawPip(ctx, x, y, pipRadius) calls of switch(value), in order, as <<x, y>>
drawPips(value) ==
  CASE value = 1 -> <<<<center, center>>>>
    [] value = 2 -> <<<<center + offset, center - offset>>,
                      <<center - offset, center + offset>>>>
    [] value = 3 -> <<<<center - offset, center - offset>>,
                      <<center, center>>,
                      <<center + offset, center + offset>>>>
    [] value = 4 -> <<<<center - offset, center - offset>>,
                      <<center + offset, center - offset>>,
                      <<center - offset, center + offset>>,
                      <<center + offset, center + offset>>>>
    [] value = 5 -> <<<<center - offset, center - offset>>,
                      <<center + offset, center - offset>>,
                      <<center, center>>,
                      <<center - offset, center + offset>>,
                      <<center + offset, center + offset>>>>
    [] value = 6 -> <<<<center - offset, center - offset>>,
                      <<center - offset, center>>,
                      <<center - offset, center + offset>>,
                      <<center + offset, center - offset>>,
                      <<center + offset, center>>,
                      <<center + offset, center + offset>>>>
    [] OTHER -> <<<<center, center>>>>

\* what the two canvas.getContext('2d') calls give, the one of
\* generateDiceFaceTexture and the one of createFallbackTexture: a context
\* (TRUE) or null (FALSE)
Contexts == BOOLEAN \X BOOLEAN

\* a texture: the object (a new object differs from every other one: it is the
\* nth made for its arguments), what it is made from ("pips": the 256 canvas
\* with the pips drawn; "text": the 64 canvas with the value written; "data":
\* the image of the data URI), the pips drawn, the text written, and the color
\* of the glow or of the text
Texture(value, color, nth, kind, pips, text, glow) ==
  [object |-> <<value, color, nth>>, kind |-> kind, pips |-> pips, text |-> text,
   glow |-> glow]

\* createFallbackTexture(THREE, value, color)
createFallbackTexture(value, color, nth, ctx) ==
  IF ~ctx
  THEN Texture(value, color, nth, "data", <<>>, <<>>, 0)
  ELSE Texture(value, color, nth, "text", <<>>, NumberToString(value), color)

generateDiceFaceTextureUncaught(value, color, nth, ctx) ==
  IF ~ctx[1]
  THEN [object |-> <<>>, kind |-> "thrown", pips |-> <<>>, text |-> <<>>, glow |-> 0]
  ELSE Texture(value, color, nth, "pips", drawPips(value), <<>>, color)

\* generateDiceFaceTexture(THREE, value, color): without a context the try
\* block throws, and the catch returns createFallbackTexture's texture
generateDiceFaceTexture(value, color, nth, ctx) ==
  IF ~ctx[1]
  THEN createFallbackTexture(value, color, nth, ctx[2])
  ELSE Texture(value, color, nth, "pips", drawPips(value), <<>>, color)

NoTexture == [object |-> <<>>, kind |-> "none", pips |-> <<>>, text |-> <<>>, glow |-> 0]

\* the record of a createDiceFaceTexture call: its arguments, whether the cache
\* held the key, the texture returned, and how many textures have been generated
\* for each pair of arguments so far
TextureCall(value, color, cached, returned, generated) ==
  [value |-> value, color |-> color, cached |-> cached, returned |-> returned,
   generated |-> generated]

\* how many textures have been generated for (value, color)
Generated(value, color) ==
  IF <<value, color>> \in DOMAIN textureCalls.generated
  THEN textureCalls.generated[<<value, color>>] ELSE 0

createDiceFaceTextureUncached(value, color, ctx) ==
  LET nth == Generated(value, color) + 1
      texture == generateDiceFaceTexture(value, color, nth, ctx)
  IN /\ nth <= MaxGenerated
     /\ diceFaceCache' = (cacheKey(value, color) :> texture) @@ diceFaceCache
     /\ textureCalls' = TextureCall(value, color, FALSE, texture,
                                    (<<value, color>> :> nth) @@ textureCalls.generated)

\* createDiceFaceTexture(THREE, value, color)
createDiceFaceTexture(value, color, ctx) ==
  IF cacheKey(value, color) \in DOMAIN diceFaceCache
  THEN /\ textureCalls' = TextureCall(value, color, TRUE, diceFaceCache[cacheKey(value, color)],
                                      textureCalls.generated)
       /\ UNCHANGED diceFaceCache
  ELSE LET nth == Generated(value, color) + 1
           texture == generateDiceFaceTexture(value, color, nth, ctx)
       IN /\ nth <= MaxGenerated
          /\ diceFaceCache' = (cacheKey(value, color) :> texture) @@ diceFaceCache
          /\ textureCalls' = TextureCall(value, color, FALSE, texture,
                                         (<<value, color>> :> nth) @@ textureCalls.generated)

\* the arguments createDice passes for the dice of the application
createdPairs ==
  {<<StandardFaces[i], DICE_COLORS[c]>> : i \in DOMAIN StandardFaces, c \in DOMAIN DICE_COLORS}

\* the cache once createDice has made the dice of the application, in a
\* browser that gives canvases a 2D context: one texture for each face of each
\* color
createdCache ==
  [k \in {cacheKey(p[1], p[2]) : p \in createdPairs} |->
     LET p == CHOOSE pair \in createdPairs : cacheKey(pair[1], pair[2]) = k
     IN generateDiceFaceTexture(p[1], p[2], 1, <<TRUE, TRUE>>)]

\* the last of these calls was for face 4 of the last color
createdCalls ==
  TextureCall(4, DICE_COLORS[Len(DICE_COLORS)], FALSE,
              generateDiceFaceTexture(4, DICE_COLORS[Len(DICE_COLORS)], 1, <<TRUE, TRUE>>),
              [p \in createdPairs |-> 1])

\* the module as loaded: an empty cache, no call made
NoTextureCall == TextureCall(0, 0, FALSE, NoTexture, <<>>)

----------------------------------------------------------------------------
(* physics/world.js ("walls") and its variant unnamed/part_005 ("composite"): *)
(* the fixed colliders of the physics world, and a die pushed across them     *)

\* RAPIER.ColliderDesc.cuboid(hx, hy, hz) at (x, y, z): the centre and the half
\* extents of the box
Cuboid(x, y, z, hx, hy, hz) == [centre |-> Vector3(x, y, z), half |-> Vector3(hx, hy, hz)]

\* the floor collider: cuboid(PHYSICS.floorSize) on a fixed body at the origin
floorCollider == Cuboid(0, 0, 0, 80 * Scale, floorSizeY, 80 * Scale)

\* createBoundaryWall(RAPIER, world, x, y, z, size, position)
createBoundaryWall(x, y, z, size, position) ==
  IF position \in {"front", "back"}
  THEN Cuboid(x, y, z, size, size, Scale)
  ELSE Cuboid(x, y, z, Scale, size, size)

\* the four walls setupPhysicsWorld of world.js creates
boundaryWalls ==
  {createBoundaryWall(0, 20 * Scale, 100 * Scale, 40 * Scale, "front"),
   createBoundaryWall(0, 20 * Scale, 0 - 100 * Scale, 40 * Scale, "back"),
   createBoundaryWall(100 * Scale, 20 * Scale, 0, 40 * Scale, "right"),
   createBoundaryWall(0 - 100 * Scale, 20 * Scale, 0, 40 * Scale, "left")}

\* const areaSize = FLOOR.size * 0.7, with FLOOR.size = 160
areaSize == (160 * Scale * 7) \div 10

wallHeight == 40 * Scale

wallThickness == 2 * Scale

\* the four walls createCompositeBoundary creates
compositeWalls ==
  {Cuboid(0, wallHeight \div 2, areaSize \div 2, areaSize \div 2, wallHeight \div 2, wallThickness \div 2),
   Cuboid(0, wallHeight \div 2, 0 - areaSize \div 2, areaSize \div 2, wallHeight \div 2, wallThickness \div 2),
   Cuboid(areaSize \div 2, wallHeight \div 2, 0, wallThickness \div 2, wallHeight \div 2, areaSize \div 2),
   Cuboid(0 - areaSize \div 2, wallHeight \div 2, 0, wallThickness \div 2, wallHeight \div 2, areaSize \div 2)}

rampSlope == Scale \div 20

\* the ramp: cuboid(areaSize, 5, areaSize).setTranslation(0, -rampSlope, 0)
rampCollider == Cuboid(0, 0 - rampSlope, 0, areaSize, 5 * Scale, areaSize)

\* .setRotation({ x: rampSlope, y: 0, z: 0 }): the quaternion has no w.  What
\* the engine makes of it is not the code's to say: it may leave the box
\* "flat" (w taken as 0 is a half turn about X, which maps the box onto itself),
\* turn it as the comment intends ("tilted": x = 0.05 with w near 1 is a turn of
\* about 0.1 rad about X), or end with a pose that is not a number, so that the
\* collider has no surface at all ("broken")
RampPoses == {"flat", "tilted", "broken"}

Top(c) == c.centre.y + c.half.y

\* the height of the ramp's top surface above the point (x, z); for the tilted
\* box the plane falls by about 0.1 per unit of z
rampTop(pose, p) ==
  IF pose = "tilted" THEN Top(rampCollider) - p.z \div 10 ELSE Top(rampCollider)

Abs(n) == IF n < 0 THEN 0 - n ELSE n

\* the point p is above or below the box c
Over(c, p) ==
  /\ Abs(p.x - c.centre.x) <= c.half.x
  /\ Abs(p.z - c.centre.z) <= c.half.z

\* half of PHYSICS.dice.size = 1.5: the half extent of the die's collider
dieHalf == (3 * Scale) \div 4

\* the die's collider, centred at p and not turned, touches the box c
Touches(c, p) ==
  /\ Abs(p.x - c.centre.x) <= c.half.x + dieHalf
  /\ Abs(p.y - c.centre.y) <= c.half.y + dieHalf
  /\ Abs(p.z - c.centre.z) <= c.half.z + dieHalf

walls(w) == IF w = "walls" THEN boundaryWalls ELSE compositeWalls

\* the ramp is under the die's centre and has a surface there
OnRamp(w, pose, p) == w = "composite" /\ pose # "broken" /\ Over(rampCollider, p)

\* what carries a die whose centre is above (x, z): the higher of the floor and
\* the ramp, "nothing" beyond both
support(w, pose, p) ==
  IF OnRamp(w, pose, p) /\ (~Over(floorCollider, p) \/ rampTop(pose, p) > Top(floorCollider))
    THEN "ramp"
  ELSE IF Over(floorCollider, p) THEN "floor"
  ELSE "nothing"

\* the die's centre when it lies at (x, z) on what carries it
lying(w, pose, x, z) ==
  LET on == support(w, pose, Vector3(x, 0, z))
      top == IF on = "ramp" THEN rampTop(pose, Vector3(x, 0, z)) ELSE Top(floorCollider)
  IN Vector3(x, top + dieHalf, z)

\* a die lying in the world w, sliding by `heading` per step: where it is, what
\* carries it, and whether it has met a wall
Probe(w, pose, x, z, heading) ==
  LET at == lying(w, pose, x, z)
  IN [world |-> w, pose |-> pose, at |-> at, heading |-> heading,
      on |-> support(w, pose, at),
      met |-> \E c \in walls(w) : Touches(c, at)]

\* where rollDice of main.js puts the first die, on the ground
startX == 10 * Scale

startZ == 10 * Scale

\* a die of the application, not pushed
NoProbe == Probe("walls", "flat", startX, startZ, Vector3(0, 0, 0))

\* the directions a die is pushed in, in units per step
Headings ==
  {Vector3(dx, 0, dz) : dx \in (0 - MaxHeading) .. MaxHeading, dz \in (0 - MaxHeading) .. MaxHeading}
    \ {Vector3(0, 0, 0)}

\* world.step() on a die sliding over the ground: it moves on by its heading
\* unless a wall holds it or nothing carries it
Slide ==
  /\ ~probe.met
  /\ probe.on # "nothing"
  /\ probe' = Probe(probe.world, probe.pose,
                    probe.at.x + probe.heading.x * Scale,
                    probe.at.z + probe.heading.z * Scale,
                    probe.heading)
  /\ UNCHANGED <<app, faceNumbers, body, mesh, light, last, calls, result,
                 browser, diceFaceCache, textureCalls, loader,
                 debug, logged, screen, registered>>

----------------------------------------------------------------------------
(* utils/loader.js: loadDependencies and importLibrary.  An action runs the   *)
(* code from one await to the next.                                           *)

\* the keys of LIBRARIES in config.js
Libraries == {"THREE", "RAPIER"}

\* the name importLibrary is given for each library
LibraryName == [THREE |-> "Three.js", RAPIER |-> "Rapier physics"]

\* the two sources of a library: LIBRARIES[..].url and LIBRARIES[..].fallbackUrl
Sources == {"url", "fallbackUrl"}

Request(library, source) == [library |-> library, source |-> source]

\* the module namespace object import() resolves to
Module(library, source) == [library |-> library, source |-> source]

NoModule == Module("none", "none")

\* new Error(message)
Error(message) == [name |-> "Error", message |-> message]

NoError == [name |-> "none", message |-> <<>>]

\* the rejection of import(url) or of RAPIER.init(): whatever the browser or
\* the engine reports
RawError(what) == [name |-> "TypeError", message |-> <<what>>]

\* `Failed to load ${name} from both primary and fallback sources.`
BothFailedMessage(name) ==
  <<"Failed to load ", name, " from both primary and fallback sources.">>

\* what the network will answer to import() of each source of each library
Networks == [{Request(l, src) : l \in Libraries, src \in Sources} -> BOOLEAN]

\* loader: pc is the await the code stands at ("idle" before loadDependencies,
\* "primary", "fallback", "init", then "loaded" or "failed"), library the one
\* being imported, requests the import() calls made so far, modules what
\* importLibrary returned, surfaced the errors importLibrary threw, thrown what
\* loadDependencies rejected with, progress the percentages given to
\* trackProgress; once initApp goes on, pc is "running" when it has returned
\* and "stopped" when its catch block has run, thrown what it caught, and steps
\* what it has done, in order
Idle(net, initOk) ==
  [pc |-> "idle", library |-> "none", requests |-> <<>>,
   modules |-> [l \in Libraries |-> NoModule],
   surfaced |-> <<>>, thrown |-> NoError, progress |-> <<>>, steps |-> <<>>,
   net |-> net, initOk |-> initOk]

\* showError(title, details, helpText): loadingEl.innerHTML = '', then the
\* title, the details and the help text are appended
ErrorMessage(title, details) == [title |-> title, details |-> details]

showError(title, details) == [screen EXCEPT !.content = ErrorMessage(title, details)]

\* err.message.includes(searched), for the messages and the words of loader.js:
\* a message is a sequence of pieces, and of the pieces only the name
\* 'Rapier physics' contains a searched word without being it
includes(message, searched) ==
  \E i \in DOMAIN message :
    \/ message[i] = searched
    \/ message[i] = "Rapier physics" /\ searched = "Rapier"

\* the catch block of loadDependencies: the message chosen for err, shown
\* under the title 'Loading Error'
showLoadingError(err) ==
  showError("Loading Error",
            IF includes(err.message, "Three.js")
            THEN "Failed to load 3D rendering engine (Three.js)."
            ELSE IF includes(err.message, "Rapier")
                 THEN "Failed to load physics engine (Rapier)."
                 ELSE "Could not load required libraries.")

\* importLibrary(url, fallbackUrl, name) up to its first await: import(url)
importLibrary(l, library) ==
  [l EXCEPT !.pc = "primary", !.library = library,
            !.requests = Append(@, Request(library, "url"))]

\* importLibrary has returned the module: loadDependencies goes on to the next
\* library, or to await RAPIER.init()
returned(l, module) ==
  LET got == [l EXCEPT !.modules[l.library] = module]
  IN IF l.library = "THREE"
     THEN importLibrary([got EXCEPT !.progress = Append(@, 20)], "RAPIER")
     ELSE [got EXCEPT !.pc = "init", !.library = "none"]

\* loadDependencies(): trackProgress(5), then importLibrary for Three.js
LoadDependencies ==
  /\ loader.pc = "idle"
  /\ loader' = importLibrary([loader EXCEPT !.progress = Append(@, 5)], "THREE")
  /\ UNCHANGED screen

PrimaryResolvedThenFallback ==
  /\ loader.pc = "primary"
  /\ loader.net[Request(loader.library, "url")]
  /\ loader' = returned([loader EXCEPT !.requests = Append(@, Request(loader.library, "fallbackUrl"))],
                        Module(loader.library, "fallbackUrl"))
  /\ UNCHANGED screen

\* return await import(url): the import resolved
PrimaryResolved ==
  /\ loader.pc = "primary"
  /\ loader.net[Request(loader.library, "url")]
  /\ loader' = returned(loader, Module(loader.library, "url"))
  /\ UNCHANGED screen

\* catch (primaryError): import(fallbackUrl)
PrimaryRejected ==
  /\ loader.pc = "primary"
  /\ ~loader.net[Request(loader.library, "url")]
  /\ loader' = [loader EXCEPT !.pc = "fallback",
                              !.requests = Append(@, Request(loader.library, "fallbackUrl"))]
  /\ UNCHANGED screen

\* return await import(fallbackUrl): the import resolved
FallbackResolved ==
  /\ loader.pc = "fallback"
  /\ loader.net[Request(loader.library, "fallbackUrl")]
  /\ loader' = returned(loader, Module(loader.library, "fallbackUrl"))
  /\ UNCHANGED screen

FallbackRejectedRethrown ==
  /\ loader.pc = "fallback"
  /\ ~loader.net[Request(loader.library, "fallbackUrl")]
  /\ loader' = [loader EXCEPT !.pc = "failed",
                              !.surfaced = @ \o <<RawError("url"), RawError("fallbackUrl")>>,
                              !.thrown = RawError("fallbackUrl")]
  /\ screen' = showLoadingError(RawError("fallbackUrl"))

\* catch (fallbackError): throw new Error(...); loadDependencies catches it,
\* shows the loading error and throws it again
FallbackRejected ==
  /\ loader.pc = "fallback"
  /\ ~loader.net[Request(loader.library, "fallbackUrl")]
  /\ loader' = [loader EXCEPT !.pc = "failed",
                              !.surfaced = Append(@, Error(BothFailedMessage(LibraryName[loader.library]))),
                              !.thrown = Error(BothFailedMessage(LibraryName[loader.library]))]
  /\ screen' = showLoadingError(Error(BothFailedMessage(LibraryName[loader.library])))

\* await RAPIER.init() resolved: trackProgress(25), the scene is set up and the
\* dependencies are returned
RapierInitialized ==
  /\ loader.pc = "init"
  /\ loader.initOk
  /\ loader' = [loader EXCEPT !.pc = "loaded", !.progress = Append(@, 25)]
  /\ UNCHANGED screen

\* await RAPIER.init() rejected: loadDependencies catches it, shows the
\* loading error and throws it again
RapierInitRejected ==
  /\ loader.pc = "init"
  /\ ~loader.initOk
  /\ loader' = [loader EXCEPT !.pc = "failed", !.thrown = RawError("init")]
  /\ screen' = showLoadingError(RawError("init"))

\* the loader once initApp has its dependencies: both libraries came from
\* their primary source
Loaded ==
  [pc |-> "loaded", library |-> "none",
   requests |-> <<Request("THREE", "url"), Request("RAPIER", "url")>>,
   modules |-> [l \in Libraries |-> Module(l, "url")],
   surfaced |-> <<>>, thrown |-> NoError, progress |-> <<5, 20, 25>>, steps |-> <<>>,
   net |-> [r \in {Request(l, src) : l \in Libraries, src \in Sources} |-> TRUE],
   initOk |-> TRUE]

\* trackProgress(percent, message)
trackProgress(l, percent) == [l EXCEPT !.progress = Append(@, percent)]

\* a step of initApp done: its name, and how many progress reports came before
done(l, name) == [l EXCEPT !.steps = Append(@, [name |-> name, at |-> Len(l.progress)])]

\* initApp from the return of loadDependencies up to the step that throws
\* ("world": setupPhysicsWorld, "floor": createFloor, "dice": createDice), or
\* to its end ("none"): the world, the floor and the dice are made, the loading
\* screen is hidden, the listeners and the timer are registered, animate() is
\* called and asks for the next frame, the resize listener is registered
initAppHidingEarly(l, failure) ==
  LET l1 == trackProgress(l, 30)
      l2 == trackProgress(done(l1, "world"), 50)
      l3 == trackProgress(done(l2, "floor"), 70)
      l4 == trackProgress(done(trackProgress(done(l3, "dice"), 90), "hidden"), 100)
      l5 == done(done(done(done(done(l4, "click"), "touchstart"), "timeout"), "frame"), "resize")
  IN CASE failure = "world" -> l1
       [] failure = "floor" -> l2
       [] failure = "dice" -> l3
       [] OTHER -> l5

initAppRegisteringEarly(l, failure) ==
  LET l1 == trackProgress(l, 30)
      l2 == trackProgress(done(l1, "world"), 50)
      l3 == trackProgress(done(done(done(l2, "floor"), "click"), "touchstart"), 70)
      l4 == trackProgress(trackProgress(done(l3, "dice"), 90), 100)
      l5 == done(done(done(done(l4, "hidden"), "timeout"), "frame"), "resize")
  IN CASE failure = "world" -> l1
       [] failure = "floor" -> l2
       [] failure = "dice" -> l3
       [] OTHER -> l5

initApp(l, failure) ==
  LET l1 == trackProgress(l, 30)
      l2 == trackProgress(done(l1, "world"), 50)
      l3 == trackProgress(done(l2, "floor"), 70)
      l4 == trackProgress(trackProgress(done(l3, "dice"), 90), 100)
      l5 == done(done(done(done(done(done(l4, "hidden"),
                "click"), "touchstart"), "timeout"), "frame"), "resize")
  IN CASE failure = "world" -> l1
       [] failure = "floor" -> l2
       [] failure = "dice" -> l3
       [] OTHER -> l5

\* the loader once createDice has made the dice of the application
Created == initApp(Loaded, "dice")

\* the loader once initApp has returned
Started == [initApp(Loaded, "none") EXCEPT !.pc = "running"]

\* the page before initApp has anything: no dice, nothing registered, an empty
\* texture cache; the network answers as it will
InitLoader ==
  /\ app \in {"main", "alt"}
  /\ faceNumbers = <<>>
  /\ body = <<>>
  /\ mesh = <<>>
  /\ light = <<>>
  /\ last = Handler("none", <<>>)
  /\ calls = <<>>
  /\ result = NoResult
  /\ browser = Page(FALSE, "none")
  /\ diceFaceCache = <<>>
  /\ textureCalls = NoTextureCall
  /\ probe = NoProbe
  /\ debug = FALSE
  /\ logged = <<>>
  /\ screen = LoadingScreen
  /\ registered = {}
  /\ \E net \in Networks, initOk \in BOOLEAN : loader = Idle(net, initOk)

NextLoader ==
  /\ \/ LoadDependencies
     \/ PrimaryResolved
     \/ PrimaryRejected
     \/ FallbackResolved
     \/ FallbackRejected
     \/ RapierInitialized
     \/ RapierInitRejected
  /\ UNCHANGED <<app, faceNumbers, body, mesh, light, last, calls, result,
                 browser, diceFaceCache, textureCalls, probe,
                 debug, logged, registered>>

SpecLoader == InitLoader /\ [][NextLoader]_vars

----------------------------------------------------------------------------
(* A die pushed across the physics world, in any direction from where a roll  *)
(* puts it                                                                    *)

InitWorld ==
  /\ app \in {"main", "alt"}
  /\ faceNumbers = [d \in Dice |-> StandardFaces]
  /\ body = [d \in Dice |-> newBody]
  /\ mesh = [d \in Dice |-> newMesh]
  /\ light = [d \in Dice |-> ZeroVector]
  /\ last = Handler("none", <<>>)
  /\ calls = <<>>
  /\ result = NoResult
  /\ browser = Page(TRUE, "none")
  /\ diceFaceCache = createdCache
  /\ textureCalls = createdCalls
  /\ loader = Created
  /\ debug = FALSE
  /\ logged = <<>>
  /\ screen = LoadingScreen
  /\ registered = {}
  /\ \E w \in {"walls", "composite"}, pose \in RampPoses, heading \in Headings :
       /\ w = "walls" => pose = "flat"
       /\ probe = Probe(w, pose, startX, startZ, heading)

NextWorld == Slide

SpecWorld == InitWorld /\ [][NextWorld]_vars

----------------------------------------------------------------------------
(* Face resolution over a bounded set of orientations: die 0 is in any        *)
(* orientation the engine may have given it, and the controller is updated    *)
(* and queried.                                                               *)

InitCreated ==
  /\ browser = Page(TRUE, "none")
  /\ diceFaceCache = createdCache
  /\ textureCalls = createdCalls
  /\ loader = Created
  /\ probe = NoProbe
  /\ logged = <<>>
  /\ screen = LoadingScreen
  /\ registered = {}
  /\ faceNumbers = [d \in Dice |-> StandardFaces]
  /\ mesh = [d \in Dice |-> newMesh]
  /\ light = [d \in Dice |-> ZeroVector]
  /\ last = Handler("none", <<>>)
  /\ calls = <<>>
  /\ result = NoResult

InitFace ==
  /\ app = "main"
  /\ debug = FALSE
  /\ InitCreated
  /\ \E q \in Orientations :
       body = [d \in Dice |-> IF d = 0 THEN [newBody EXCEPT !.rotation = q] ELSE newBody]

NextFace ==
  \/ \E d \in Dice : Update(d)
  \/ \E d \in Dice : GetValue(d)

SpecFace == InitFace /\ [][NextFace]_vars

----------------------------------------------------------------------------
(* The rest predicate over a bounded set of velocities: the engine gives die  *)
(* 0 any linear and angular velocity of the set, and the controller is        *)
(* queried.                                                                   *)

\* velocities along one axis, in steps of 0.05
InputVelocities ==
  {Vector3(k * (Scale \div 20), 0, 0) : k \in 0 .. MaxV}
    \cup {Vector3(0, k * (Scale \div 20), 0) : k \in 0 .. MaxV}
    \cup {Vector3(0, 0, k * (Scale \div 20)) : k \in 0 .. MaxV}

InitRest ==
  /\ app = "main"
  /\ debug = FALSE
  /\ InitCreated
  /\ \E lv \in InputVelocities, av \in InputVelocities :
       body = [d \in Dice |->
                 IF d = 0 THEN [newBody EXCEPT !.linvel = lv, !.angvel = av] ELSE newBody]

\* world.step(), as far as the velocities of die 0 go
StepVelocities ==
  /\ \E lv \in InputVelocities, av \in InputVelocities :
       body' = [body EXCEPT ![0].linvel = lv, ![0].angvel = av]
  /\ last' = Handler("step", <<>>)
  /\ calls' = <<Call("step", NoDie, ZeroVector, newBody)>>
  /\ logged' = <<>>
  /\ result' = NoResult
  /\ UNCHANGED <<app, faceNumbers, mesh, light, browser, assetVars>>

NextRest ==
  \/ StepVelocities
  \/ \E d \in Dice : IsAtRest(d)

SpecRest == InitRest /\ [][NextRest]_vars

----------------------------------------------------------------------------
(* rollDice and animate of main.js (app = "main") and of its variant in       *)
(* unnamed/part_006 (app = "alt")                                             *)

\* Math.random() returns 0 or 0.5
Half == Scale \div 2

\* the number of Math.random() calls rollDice makes for one die
NDraws(a) == IF a = "main" THEN 6 ELSE 9

\* a * b of two fixed-point numbers
Mul(a, b) == (a * b) \div Scale

\* what the Math.random() calls of one rollDice return, per die and per call:
\* the calls numbered in hi return 0.5
Draws(a, hi) ==
  [d \in Dice |-> [k \in 1 .. NDraws(a) |->
     IF (d * NDraws(a) + k) \in hi THEN Half ELSE 0]]

\* the runs of at most MaxHigh consecutive calls of one rollDice
HighSets(a) ==
  {{p \in 1 .. (Len(DICE_COLORS) * NDraws(a)) : first <= p /\ p < first + len} :
     first \in 1 .. (Len(DICE_COLORS) * NDraws(a)), len \in 0 .. MaxHigh}

\* the arguments of the three calls rollDice makes on die `index`
rollArgs(a, index, r) ==
  IF a = "main"
  THEN LET offsetX == (index * Scale) \div 2
           offsetZ == (index * 3 * Scale) \div 10
           height == 8 * Scale + index * 2 * Scale
           force == 15 * Scale + r[1] * 3
       IN [reset |-> Vector3(10 * Scale + offsetX, height, 10 * Scale + offsetZ),
           impulse |-> Vector3(0 - force,
                               5 * Scale + r[2] * 2,
                               0 - Mul(force, (8 * Scale) \div 10 + (r[3] * 4) \div 10)),
           torque |-> Vector3((r[4] - Half) * 10, (r[5] - Half) * 10, (r[6] - Half) * 10)]
  ELSE LET offsetX == index * 4 * Scale
           offsetZ == index * 3 * Scale
           height == 8 * Scale + index * 3 * Scale
           force == 18 * Scale + r[3] * 5
       IN [reset |-> Vector3(8 * Scale + offsetX + (r[1] * 2 - Scale),
                             height,
                             8 * Scale + offsetZ + (r[2] * 2 - Scale)),
           impulse |-> Vector3(0 - Mul(force, (9 * Scale) \div 10 + (r[4] * 2) \div 10),
                               6 * Scale + r[5] * 3,
                               0 - Mul(force, (7 * Scale) \div 10 + (r[6] * 3) \div 10)),
           torque |-> Vector3((r[7] - Half) * 15, (r[8] - Half) * 15, (r[9] - Half) * 15)]

rollDieImpulseFirst(a, b, index, r) ==
  LET args == rollArgs(a, index, r)
      b1 == applyImpulse(b, args.impulse.x, args.impulse.y, args.impulse.z)
      b2 == reset(b1, args.reset.x, args.reset.y, args.reset.z)
      b3 == applyTorque(b2, args.torque.x, args.torque.y, args.torque.z)
  IN [body |-> b3,
      calls |-> <<Call("applyImpulse", index, args.impulse, b1),
                  Call("reset", index, args.reset, b2),
                  Call("applyTorque", index, args.torque, b3)>>]

rollDieFixedTorque(a, b, index, r) ==
  LET args == rollArgs(a, index, r)
      fixed == Vector3((0 - Half) * 10, (0 - Half) * 10, (0 - Half) * 10)
      b1 == reset(b, args.reset.x, args.reset.y, args.reset.z)
      b2 == applyImpulse(b1, args.impulse.x, args.impulse.y, args.impulse.z)
      b3 == applyTorque(b2, fixed.x, fixed.y, fixed.z)
  IN [body |-> b3,
      calls |-> <<Call("reset", index, args.reset, b1),
                  Call("applyImpulse", index, args.impulse, b2),
                  Call("applyTorque", index, fixed, b3)>>]

\* the callback of dice.forEach in rollDice, for the die `index` with body b
\* and the Math.random() values r: reset, applyImpulse, applyTorque
rollDie(a, b, index, r) ==
  LET args == rollArgs(a, index, r)
      b1 == reset(b, args.reset.x, args.reset.y, args.reset.z)
      b2 == applyImpulse(b1, args.impulse.x, args.impulse.y, args.impulse.z)
      b3 == applyTorque(b2, args.torque.x, args.torque.y, args.torque.z)
  IN [body |-> b3,
      calls |-> <<Call("reset", index, args.reset, b1),
                  Call("applyImpulse", index, args.impulse, b2),
                  Call("applyTorque", index, args.torque, b3)>>]

\* s[1] \o s[2] \o ... for a function s from dice i .. to sequences
RECURSIVE forEachDie(_, _)
forEachDie(s, i) == IF i \notin DOMAIN s THEN <<>> ELSE s[i] \o forEachDie(s, i + 1)

\* rollDice(): the click and touchstart listeners and the initial timer
RollDice ==
  \E hi \in HighSets(app) :
    LET r == Draws(app, hi)
        rolled == [d \in Dice |-> rollDie(app, body[d], d, r[d])]
    IN /\ body' = [d \in Dice |-> rolled[d].body]
       /\ last' = Handler("rollDice", r)
       /\ calls' = forEachDie([d \in Dice |-> rolled[d].calls], 0)
       /\ logged' = <<>>
       /\ result' = NoResult
       /\ UNCHANGED <<app, faceNumbers, mesh, light, assetVars>>

\* what world.step() may make of a body: the engine is free to move it, here
\* to one of a few poses and velocities (in flight, slowing down on the floor,
\* at the threshold, at rest)
StepOutcomes ==
  {[translation |-> Vector3(6 * Scale, 4 * Scale, 7 * Scale), rotation |-> Quaternion(1, 0, 0, 1),
    linvel |-> Vector3(0 - 4 * Scale, 0 - Scale, 0 - 3 * Scale), angvel |-> Vector3(0, 2 * Scale, 0)],
   [translation |-> Vector3(Scale, (17 * Scale) \div 20, 0 - 2 * Scale), rotation |-> Quaternion(0, 0, 1, 1),
    linvel |-> Vector3(Scale \div 20, 0, 0), angvel |-> Vector3(0, 0, Scale \div 20)],
   [translation |-> Vector3(0 - Scale, Scale, 0), rotation |-> Quaternion(1, 0, 2, 2),
    linvel |-> Vector3(Scale \div 10, 0, 0), angvel |-> ZeroVector],
   [translation |-> Vector3(0, (17 * Scale) \div 20, 0), rotation |-> Quaternion(1, 0, 0, 0),
    linvel |-> ZeroVector, angvel |-> ZeroVector]}

AnimateUpdateFirst ==
  \E stepped \in [Dice -> StepOutcomes] :
    /\ body' = stepped
    /\ mesh' = [d \in Dice |-> updateMesh(body[d])]
    /\ light' = [d \in Dice |-> updateLight(updateMesh(body[d]))]
    /\ last' = Handler("animate", <<>>)
    /\ calls' = forEachDie([d \in Dice |-> <<Call("update", d, ZeroVector, body[d])>>], 0)
                  \o <<Call("step", NoDie, ZeroVector, newBody)>>
                  \o <<Call("render", NoDie, ZeroVector, newBody)>>
    /\ logged' = forEachDie([d \in Dice |->
                    updateLogs(debug, body[d], updateMesh(body[d]), faceNumbers[d], d)], 0)
    /\ result' = NoResult
    /\ UNCHANGED <<app, faceNumbers, assetVars>>

\* animate(): world.step(), update() on every die, renderer.render()
Animate ==
  \E stepped \in [Dice -> StepOutcomes] :
    /\ body' = stepped
    /\ mesh' = [d \in Dice |-> updateMesh(stepped[d])]
    /\ light' = [d \in Dice |-> updateLight(updateMesh(stepped[d]))]
    /\ last' = Handler("animate", <<>>)
    /\ calls' = <<Call("step", NoDie, ZeroVector, newBody)>>
                  \o forEachDie([d \in Dice |-> <<Call("update", d, ZeroVector, stepped[d])>>], 0)
                  \o <<Call("render", NoDie, ZeroVector, newBody)>>
    /\ logged' = forEachDie([d \in Dice |->
                    updateLogs(debug, stepped[d], updateMesh(stepped[d]), faceNumbers[d], d)], 0)
    /\ result' = NoResult
    /\ UNCHANGED <<app, faceNumbers, assetVars>>

Init ==
  /\ app \in {"main", "alt"}
  /\ debug = FALSE
  /\ InitCreated
  /\ body = [d \in Dice |-> newBody]

\* the die controllers, rolled, stepped and queried, whatever the page does
Next ==
  \/ RollDice /\ UNCHANGED browser
  \/ Animate /\ UNCHANGED browser
  \/ \E d \in Dice : GetValue(d)
  \/ \E d \in Dice : IsAtRest(d)

Spec == Init /\ [][Next]_vars

----------------------------------------------------------------------------
(* The texture cache, asked for dice face textures once the application has   *)
(* made its dice                                                              *)

\* the colors asked for: the second dice color, whose textures the cache holds,
\* and a color of the configuration it does not hold (0xffffff)
TextureColors == {DICE_COLORS[2], 16777215}

\* a call createDiceFaceTexture(THREE, value, color)
CreateDiceFaceTexture ==
  \E value \in 1 .. MaxValue, color \in TextureColors, ctx \in Contexts :
    /\ createDiceFaceTexture(value, color, ctx)
    /\ UNCHANGED <<app, faceNumbers, body, mesh, light, last, calls, result,
                   browser, loader, probe, debug, logged, screen, registered>>

NextTexture == CreateDiceFaceTexture

SpecTexture == Init /\ [][NextTexture]_vars

----------------------------------------------------------------------------
(* The page after initApp: the callbacks main.js registered, as the browser   *)
(* runs them, each to completion                                              *)

ClickWhenStill ==
  /\ "click" \in registered
  /\ \A d \in Dice : body[d].linvel = ZeroVector /\ body[d].angvel = ZeroVector
  /\ RollDice
  /\ browser' = [browser EXCEPT !.event = "click"]

\* window.addEventListener('click', rollDice): the page dispatches a click
Click ==
  /\ "click" \in registered
  /\ RollDice
  /\ browser' = [browser EXCEPT !.event = "click"]

\* window.addEventListener('touchstart', (e) => { e.preventDefault(); rollDice(); }):
\* the page dispatches a touchstart
Touchstart ==
  /\ "touchstart" \in registered
  /\ RollDice
  /\ browser' = [browser EXCEPT !.event = "touchstart"]

\* setTimeout(rollDice, 500): the timer fires, once
Timeout ==
  /\ "timeout" \in registered
  /\ browser.timer
  /\ RollDice
  /\ browser' = Page(FALSE, "timeout")

\* the frame callback: requestAnimationFrame(animate) asks for the next frame,
\* then animate() runs
Frame ==
  /\ "frame" \in registered
  /\ Animate
  /\ browser' = [browser EXCEPT !.event = "frame"]

NextPage ==
  \/ Click
  \/ Touchstart
  \/ Timeout
  \/ Frame

\* initApp has returned: the listeners are registered, the timer is pending and
\* the first animate(), called by initApp itself, has stepped the world and
\* updated the dice
InitPage ==
  /\ app \in {"main", "alt"}
  /\ faceNumbers = [d \in Dice |-> StandardFaces]
  /\ \E stepped \in [Dice -> StepOutcomes] :
       /\ body = stepped
       /\ mesh = [d \in Dice |-> updateMesh(stepped[d])]
       /\ light = [d \in Dice |-> updateLight(updateMesh(stepped[d]))]
       /\ calls = <<Call("step", NoDie, ZeroVector, newBody)>>
                    \o forEachDie([d \in Dice |-> <<Call("update", d, ZeroVector, stepped[d])>>], 0)
                    \o <<Call("render", NoDie, ZeroVector, newBody)>>
  /\ last = Handler("animate", <<>>)
  /\ result = NoResult
  /\ browser = Page(TRUE, "frame")
  /\ debug = FALSE
  /\ logged = <<>>
  /\ screen = Screen("none", ProgressBar)
  /\ registered = Callbacks
  /\ diceFaceCache = createdCache
  /\ textureCalls = createdCalls
  /\ loader = Started
  /\ probe = NoProbe

SpecPage == InitPage /\ [][NextPage]_vars

----------------------------------------------------------------------------
(* initApp of main.js and of unnamed/part_006, from the page as loaded: the   *)
(* dependencies are loaded, initApp goes on or catches, and the page runs the *)
(* callbacks initApp registered                                               *)

\* the names of the steps done
stepNames(l) == {l.steps[i].name : i \in DOMAIN l.steps}

\* initApp goes on from await loadDependencies() to its end, or to the step
\* that throws and then through its catch block
InitAppResumed ==
  /\ loader.pc = "loaded"
  /\ \E failure \in {"none", "world", "floor", "dice"}, stepped \in [Dice -> StepOutcomes] :
       LET l == initApp(loader, failure)
       IN /\ registered' = stepNames(l) \cap Callbacks
          /\ browser' = Page("timeout" \in stepNames(l),
                             IF "frame" \in stepNames(l) THEN "frame" ELSE "none")
          /\ IF failure = "none"
             THEN /\ loader' = [l EXCEPT !.pc = "running"]
                  /\ screen' = Screen(IF "hidden" \in stepNames(l) THEN "none" ELSE screen.display,
                                      screen.content)
                  /\ faceNumbers' = [d \in Dice |-> StandardFaces]
                  /\ diceFaceCache' = createdCache
                  /\ textureCalls' = createdCalls
                  /\ body' = stepped
                  /\ mesh' = [d \in Dice |-> updateMesh(stepped[d])]
                  /\ light' = [d \in Dice |-> updateLight(updateMesh(stepped[d]))]
                  /\ last' = Handler("animate", <<>>)
                  /\ calls' = <<Call("step", NoDie, ZeroVector, newBody)>>
                       \o forEachDie([d \in Dice |-> <<Call("update", d, ZeroVector, stepped[d])>>], 0)
                       \o <<Call("render", NoDie, ZeroVector, newBody)>>
                  /\ logged' = forEachDie([d \in Dice |->
                       updateLogs(debug, stepped[d], updateMesh(stepped[d]), StandardFaces, d)], 0)
             ELSE /\ loader' = [l EXCEPT !.pc = "stopped", !.thrown = RawError(failure)]
                  /\ screen' = [showError("Application Error",
                                          "Failed to initialize the 3D environment.")
                                  EXCEPT !.display = IF "hidden" \in stepNames(l)
                                                     THEN "none" ELSE screen.display]
                  /\ UNCHANGED <<faceNumbers, diceFaceCache, textureCalls, body, mesh,
                                 light, last, calls, logged>>
  /\ UNCHANGED <<app, result, probe, debug>>

\* await loadDependencies() rejected: the catch block of initApp
InitAppCaught ==
  /\ loader.pc = "failed"
  /\ loader' = [loader EXCEPT !.pc = "stopped"]
  /\ screen' = showError("Application Error", "Failed to initialize the 3D environment.")
  /\ UNCHANGED <<app, faceNumbers, body, mesh, light, last, calls, result,
                 browser, diceFaceCache, textureCalls, probe, debug, logged, registered>>

\* a network in which the requests of `down` fail and every other succeeds
Network(down) ==
  [r \in {Request(l, src) : l \in Libraries, src \in Sources} |-> r \notin down]

\* the networks initApp is run with: every source answers; Three.js comes from
\* its fallback source only; Three.js comes from neither source; Rapier comes
\* from neither source
InitNetworks ==
  {Network({}),
   Network({Request("THREE", "url")}),
   Network({Request("THREE", "url"), Request("THREE", "fallbackUrl")}),
   Network({Request("RAPIER", "url"), Request("RAPIER", "fallbackUrl")})}

InitInitApp ==
  /\ InitLoader
  /\ loader.net \in InitNetworks

NextInit ==
  \/ NextLoader
  \/ InitAppResumed
  \/ InitAppCaught
  \/ Click
  \/ Touchstart
  \/ Timeout
  \/ Frame

SpecInit == InitInitApp /\ [][NextInit]_vars

----------------------------------------------------------------------------
(* The face resolver as the specification states it *)

FaceLabels == 1 .. 6

\* the alignment of face i with world up: its local normal taken into world
\* space by the orientation, dotted with (0, 1, 0)
worldAlignment(q, i) == dot(applyQuaternion(normals[i], q), upWorld)

\* the faces of maximum alignment with up
TopFaces(q) ==
  {i \in DOMAIN normals : \A j \in DOMAIN normals : worldAlignment(q, i) >= worldAlignment(q, j)}

LowestLabel(faces, is) ==
  CHOOSE l \in {faces[i] : i \in is} : \A k \in {faces[i] : i \in is} : l <= k

\* the orientation brings the local normal of face i exactly onto world up
FaceExactlyUp(q, i) == applyQuaternion(normals[i], q) = Vector3(0, Norm(q), 0)

\* the quaternion the last query read
QueriedQuaternion == mesh[result.die].quaternion

\* C1: in an orientation that brings the local normal of one face exactly onto
\* world up, getValue() returns the label assigned to that face
\* (+X:1, -X:6, +Y:2, -Y:5, +Z:3, -Z:4).
C1_FaceUpReturnsItsLabel ==
  result.op = "getValue" =>
    \A i \in DOMAIN normals :
      FaceExactlyUp(QueriedQuaternion, i) =>
        result.value = Num(faceNumbers[result.die][i])

\* C2: getCurrentValue returns the label of a face whose world-space normal has
\* the maximum dot product with world up, as the specified algorithm selects it.
C2_SameAsSpecifiedAlgorithm ==
  result.op = "getValue" =>
    \E i \in TopFaces(QueriedQuaternion) :
      result.value = Num(faceNumbers[result.die][i])

\* C3: when two or more faces are equally and maximally aligned with up,
\* getCurrentValue returns the lowest label among the tied faces.
C3_TieReturnsLowestLabel ==
  (result.op = "getValue" /\ Cardinality(TopFaces(QueriedQuaternion)) >= 2) =>
    result.value = Num(LowestLabel(faceNumbers[result.die], TopFaces(QueriedQuaternion)))

\* C7: getValue() returns a number that is one of the labels 1..6, in every
\* orientation; it never returns undefined.
C7_ValueIsALabel ==
  result.op = "getValue" =>
    (result.value.type = "number" /\ result.value.val \in FaceLabels)

\* C7 witness: getValue() was called on a rotated die lying edge-on (two faces
\* equally aligned with up).
C7_Witness ==
  /\ result.op = "getValue"
  /\ QueriedQuaternion # IdentityQuaternion
  /\ Cardinality(TopFaces(QueriedQuaternion)) >= 2

\* C10: a getValue() that follows a getValue() on the same die, with no other
\* call in between and the body's orientation unchanged, returns the same label.
C10_RepeatedGetValueSameLabel ==
  [][(result'.op = "getValue" /\ result'.again
        /\ body'[result'.die].rotation = body[result'.die].rotation)
      => result'.value = result.value]_vars

\* C10 witness: getValue() was called twice in a row on a die that update() has
\* given an orientation in which +Y is not up.
C10_Witness ==
  /\ result.op = "getValue"
  /\ result.again
  /\ mesh[result.die].quaternion = body[result.die].rotation
  /\ ~FaceExactlyUp(QueriedQuaternion, 2)

\* face i is more aligned with world up than every other face
StrictlyUp(q, i) ==
  \A j \in DOMAIN normals : j # i => worldAlignment(q, i) > worldAlignment(q, j)

\* C17: around each of the six face-up poses, away from the boundary where two
\* faces are equally aligned, getValue() returns the label of the pose: the
\* label of the face whose alignment with up strictly exceeds that of every
\* other face.
C17_NearFaceUpSameLabel ==
  result.op = "getValue" =>
    \A i \in DOMAIN normals :
      (StrictlyUp(QueriedQuaternion, i) /\ ~FaceExactlyUp(QueriedQuaternion, i)) =>
        result.value = Num(faceNumbers[result.die][i])

----------------------------------------------------------------------------
(* The rest predicate as the specification states it *)

\* |v| < threshold, for a threshold that is not negative
SpeedBelow(v, threshold) == dot(v, v) < threshold * threshold

\* isSettled: the linear speed is below the linear threshold and the angular
\* speed below the angular threshold
isSettled(b) ==
  /\ SpeedBelow(b.linvel, velocityThreshold)
  /\ SpeedBelow(b.angvel, angularVelocityThreshold)

\* C4: isAtRest() returns true if and only if the linear speed is strictly below
\* 0.1 and the angular speed is strictly below 0.1.
C4_AtRestIffBothBelow ==
  result.op = "isAtRest" => (result.atRest <=> isSettled(body[result.die]))

\* C9: whatever was read or returned before, an isAtRest() query returns true
\* exactly when the speeds at the instant of the query are below the thresholds.
C9_InstantaneousRest ==
  [][\A d \in Dice :
       (result'.op = "isAtRest" /\ result'.die = d /\ result' # result)
         => (result'.atRest <=> isSettled(body[d]))]_vars

----------------------------------------------------------------------------
(* The roll contract *)

\* the positions in calls of the calls `op` made on die d
CallsOf(op, d) == {i \in DOMAIN calls : calls[i].op = op /\ calls[i].die = d}

\* C5: in every roll, every die is reset to a position strictly above the floor
\* plane, with zero linear and angular velocity, before any impulse or torque of
\* the roll is applied to it.
C5_ResetBeforeImpulse ==
  last.handler = "rollDice" =>
    \A d \in Dice :
      \E i \in CallsOf("reset", d) :
        /\ calls[i].after.translation.y > floorSizeY
        /\ calls[i].after.linvel = ZeroVector
        /\ calls[i].after.angvel = ZeroVector
        /\ \A j \in CallsOf("applyImpulse", d) \cup CallsOf("applyTorque", d) : i < j

\* C5 witness: a roll of dice that the engine had left moving and away from the
\* start position, now reset and carrying the new impulse.
C5_Witness ==
  /\ last.handler = "rollDice"
  /\ \A d \in Dice :
       /\ mesh[d].position # body[d].translation
       /\ mesh[d].position # ZeroVector
       /\ body[d].linvel # ZeroVector

\* C6: a roll applies to every die exactly one linear impulse and exactly one
\* torque impulse, and the random values drawn for the roll show in them: a
\* draw other than 0 for the linear impulse (the three or four draws before those
\* of the torque) changes the impulse applied, and a draw other than 0 for a
\* torque axis (the last three draws) changes the torque on that axis.
C6_OneRandomImpulseAndTorque ==
  last.handler = "rollDice" =>
    \A d \in Dice :
      LET n == NDraws(app)
          r == last.draws[d]
          base == rollDie(app, newBody, d, [k \in 1 .. n |-> 0]).calls
          baseOf(op) == (CHOOSE c \in {base[i] : i \in DOMAIN base} : c.op = op).args
      IN /\ Cardinality(CallsOf("applyImpulse", d)) = 1
         /\ Cardinality(CallsOf("applyTorque", d)) = 1
         /\ \A i \in CallsOf("applyImpulse", d) :
              (\E k \in (n - 6) .. (n - 3) : k >= 1 /\ r[k] # 0)
                => calls[i].args # baseOf("applyImpulse")
         /\ \A i \in CallsOf("applyTorque", d) :
              /\ r[n - 2] # 0 => calls[i].args.x # baseOf("applyTorque").x
              /\ r[n - 1] # 0 => calls[i].args.y # baseOf("applyTorque").y
              /\ r[n] # 0 => calls[i].args.z # baseOf("applyTorque").z

\* C6 witness: a roll that gave two dice different torques.
C6_Witness ==
  /\ last.handler = "rollDice"
  /\ \E i, j \in DOMAIN calls :
       /\ calls[i].op = "applyTorque"
       /\ calls[j].op = "applyTorque"
       /\ calls[i].die # calls[j].die
       /\ calls[i].args # calls[j].args

----------------------------------------------------------------------------
(* The face assignment *)

\* the label the assignment gives each local direction
LabelOfDirection(n) ==
  CASE n = Vector3(1, 0, 0) -> 1
    [] n = Vector3(-1, 0, 0) -> 6
    [] n = Vector3(0, 1, 0) -> 2
    [] n = Vector3(0, -1, 0) -> 5
    [] n = Vector3(0, 0, 1) -> 3
    [] n = Vector3(0, 0, -1) -> 4

Opposite(n, m) == n.x + m.x = 0 /\ n.y + m.y = 0 /\ n.z + m.z = 0

\* C8: in every state, the face numbers of every die are a bijection between
\* the six entries of the normals list and the labels 1..6, entry by entry the
\* label of the direction (+X:1, -X:6, +Y:2, -Y:5, +Z:3, -Z:4), with opposite
\* directions summing to 7; no operation changes them.
C8_FaceAssignmentFixed ==
  \A d \in Dice :
    /\ DOMAIN faceNumbers[d] = DOMAIN normals
    /\ {faceNumbers[d][i] : i \in DOMAIN normals} = FaceLabels
    /\ \A i \in DOMAIN normals : faceNumbers[d][i] = LabelOfDirection(normals[i])
    /\ \A i, j \in DOMAIN normals :
         Opposite(normals[i], normals[j]) => faceNumbers[d][i] + faceNumbers[d][j] = 7

\* C8 witness: the dice were stepped and updated, rolled again and queried.
C8_Witness ==
  /\ last.handler = "rollDice"
  /\ result.op = "getValue"
  /\ \A d \in Dice : mesh[d].quaternion # IdentityQuaternion

----------------------------------------------------------------------------
(* Queries, frames and roll requests *)

\* C11: getValue() and isAtRest() are read-only queries: a call leaves the
\* body's translation, rotation, linear and angular velocity, the mesh position
\* and quaternion and the light position of every die unchanged.
C11_QueriesReadOnly ==
  [][(result'.op \in {"getValue", "isAtRest"} /\ result' # result)
      => (body' = body /\ mesh' = mesh /\ light' = light)]_vars

\* C11 witness: isAtRest() was called on a die that the last frame left moving
\* and turned, its mesh and light following the body.
C11_Witness ==
  /\ result.op = "isAtRest"
  /\ last.handler = "animate"
  /\ body[result.die].linvel # ZeroVector
  /\ mesh[result.die].quaternion # IdentityQuaternion
  /\ light[result.die] # ZeroVector

\* the calls `op` of the last handler, on any die or on none
CallsNamed(op) == {i \in DOMAIN calls : calls[i].op = op}

\* C12: in every animation frame the physics world is stepped exactly once,
\* first; then update() is called exactly once on every die; then the scene is
\* rendered.  No roll handler runs between the step and the updates: the frame
\* makes no reset, impulse or torque call, and every update copies the body the
\* step left.
C12_FrameStepsUpdatesRenders ==
  browser.event = "frame" =>
    /\ last.handler = "animate"
    /\ Len(calls) = Cardinality(Dice) + 2
    /\ CallsNamed("step") = {1}
    /\ CallsNamed("render") = {Len(calls)}
    /\ \A d \in Dice :
         /\ Cardinality(CallsOf("update", d)) = 1
         /\ \A i \in CallsOf("update", d) :
              /\ 1 < i /\ i < Len(calls)
              /\ calls[i].after = body[d]
         /\ mesh[d] = updateMesh(body[d])
    /\ CallsNamed("reset") \cup CallsNamed("applyImpulse") \cup CallsNamed("applyTorque") = {}

\* C12 witness: a frame that followed the roll of the initial timer and left
\* the two dice in different poses.
C12_Witness ==
  /\ browser.event = "frame"
  /\ ~browser.timer
  /\ \E d, e \in Dice : body[d] # body[e] /\ mesh[d] # mesh[e]

\* C13: after initialization, every click and every touchstart triggers exactly
\* one roll of all dice.  No request is dropped or deferred, whatever the dice
\* are doing: the two listeners can run in every state, and the handler of the
\* event resets every die once and gives it one impulse and one torque.
C13_EveryRequestRollsOnce ==
  /\ ENABLED Click
  /\ ENABLED Touchstart
  /\ browser.event \in {"click", "touchstart"} =>
       /\ last.handler = "rollDice"
       /\ Len(calls) = 3 * Cardinality(Dice)
       /\ \A d \in Dice :
            /\ Cardinality(CallsOf("reset", d)) = 1
            /\ Cardinality(CallsOf("applyImpulse", d)) = 1
            /\ Cardinality(CallsOf("applyTorque", d)) = 1
            /\ body[d].translation = rollArgs(app, d, last.draws[d]).reset

\* C13 witness: a touchstart rolled the dice while the last frame showed them
\* moving away from where a roll puts them.
C13_Witness ==
  /\ browser.event = "touchstart"
  /\ last.handler = "rollDice"
  /\ \A d \in Dice :
       /\ mesh[d].position = Vector3(6 * Scale, 4 * Scale, 7 * Scale)
       /\ body[d].translation # mesh[d].position

\* C18: immediately after update() the mesh position equals the body's
\* translation, the mesh quaternion equals the body's rotation, and the point
\* light is at the mesh position raised by 2 on the Y axis; update() does not
\* change the body's translation, rotation or velocities.
C18_UpdateCopiesPose ==
  [][\A d \in Dice :
       (last'.handler = "update" /\ calls'[1].die = d /\ result'.op = "none")
         => /\ mesh'[d].position = body'[d].translation
            /\ mesh'[d].quaternion = body'[d].rotation
            /\ light'[d] = Vector3(mesh'[d].position.x,
                                   mesh'[d].position.y + 2 * Scale,
                                   mesh'[d].position.z)
            /\ body' = body]_vars

\* C18 witness: update() ran on a die that the engine had turned and that sat
\* above the origin.
C18_Witness ==
  /\ last.handler = "update"
  /\ result.op = "none"
  /\ body[calls[1].die].rotation # IdentityQuaternion
  /\ mesh[calls[1].die].position = Vector3(0, 5 * Scale, 0)
  /\ mesh[calls[1].die].quaternion = body[calls[1].die].rotation

----------------------------------------------------------------------------
(* The dice face texture cache *)

\* the pairs (value, color) for which a texture has been generated
GeneratedPairs == DOMAIN textureCalls.generated

\* C14: createDiceFaceTexture memoizes by (face value, color).  A texture is
\* generated at most once for each pair; every pair for which one was generated
\* still has it in the cache, the first one made for it (no entry is evicted or
\* replaced); two different pairs never share a cache entry or a texture; and a
\* call returns the texture the cache holds for its pair, which was made for
\* its value and color.
C14_TextureMemoized ==
  /\ \A p \in GeneratedPairs :
       /\ textureCalls.generated[p] = 1
       /\ cacheKey(p[1], p[2]) \in DOMAIN diceFaceCache
       /\ diceFaceCache[cacheKey(p[1], p[2])].object = <<p[1], p[2], 1>>
  /\ \A p, q \in GeneratedPairs :
       p # q => /\ cacheKey(p[1], p[2]) # cacheKey(q[1], q[2])
                /\ diceFaceCache[cacheKey(p[1], p[2])] # diceFaceCache[cacheKey(q[1], q[2])]
  /\ Cardinality(DOMAIN diceFaceCache) = Cardinality(GeneratedPairs)
  /\ textureCalls.returned = diceFaceCache[cacheKey(textureCalls.value, textureCalls.color)]
  /\ textureCalls.returned.object = <<textureCalls.value, textureCalls.color, 1>>
  /\ textureCalls.returned.kind # "data" => textureCalls.returned.glow = textureCalls.color

\* C14 witness: a call found its texture in the cache, which by then also held
\* a texture of the same face value in a color the application does not use.
C14_Witness ==
  /\ textureCalls.cached
  /\ \E color \in TextureColors :
       /\ color # textureCalls.color
       /\ <<textureCalls.value, color>> \in GeneratedPairs \ createdPairs

----------------------------------------------------------------------------
(* The physics world *)

\* C19: the four boundary walls of setupPhysicsWorld (world.js) contain the dice
\* within the floor area: a die sliding from the start position in any
\* direction is always carried by the floor, because it meets a wall before it
\* can leave it.
C19_WallsKeepDiceOnFloor ==
  probe.world = "walls" => probe.on = "floor"

\* C20: the ramp of createCompositeBoundary lies below the floor level: no part
\* of its top surface is above the top of the floor collider, so a die lying
\* anywhere in the world of part_005 lies on the floor and not on the ramp.
C20_RampBelowFloor ==
  probe.world = "composite" =>
    /\ probe.on # "ramp"
    /\ (probe.pose # "broken" /\ Over(rampCollider, probe.at))
         => rampTop(probe.pose, probe.at) <= Top(floorCollider)

----------------------------------------------------------------------------
(* Loading a library *)

\* the import() requests made for a library, in order
RequestsFor(library) ==
  LET Mine(r) == r.library = library
  IN SelectSeq(loader.requests, Mine)

\* importLibrary is past its import() of this source of the library
Settled(library, source) ==
  /\ \E i \in DOMAIN loader.requests : loader.requests[i] = Request(library, source)
  /\ ~(loader.library = library
        /\ loader.pc = (IF source = "url" THEN "primary" ELSE "fallback"))

\* C15: importLibrary requests the primary URL first and the fallback URL only
\* after the primary import has failed; when the primary import succeeds its
\* module is returned and the fallback is never requested.
C15_PrimaryFirstFallbackAfterFailure ==
  \A library \in Libraries :
    /\ RequestsFor(library) \in
         {<<>>, <<Request(library, "url")>>,
          <<Request(library, "url"), Request(library, "fallbackUrl")>>}
    /\ Len(RequestsFor(library)) = 2 =>
         (Settled(library, "url") /\ ~loader.net[Request(library, "url")])
    /\ (Settled(library, "url") /\ loader.net[Request(library, "url")]) =>
         /\ loader.modules[library] = Module(library, "url")
         /\ RequestsFor(library) = <<Request(library, "url")>>

\* C15 witness: the dependencies are loaded, Three.js from its fallback after
\* the primary failed and Rapier from its primary URL.
C15_Witness ==
  /\ loader.pc = "loaded"
  /\ loader.modules["THREE"] = Module("THREE", "fallbackUrl")
  /\ loader.modules["RAPIER"] = Module("RAPIER", "url")

\* C16: when both imports of a library fail, importLibrary fails with exactly
\* one error, the aggregated one that names the library ('Failed to load <name>
\* from both primary and fallback sources.'), and loading fails with it; when
\* the fallback import succeeds after the primary failed, the fallback module is
\* returned and no error of that library surfaces.
C16_BothFailedOneAggregatedError ==
  \A library \in Libraries :
    LET aggregated == Error(BothFailedMessage(LibraryName[library]))
    IN /\ (Settled(library, "fallbackUrl") /\ ~loader.net[Request(library, "fallbackUrl")]) =>
            /\ loader.pc = "failed"
            /\ loader.surfaced = <<aggregated>>
            /\ loader.thrown = aggregated
            /\ loader.thrown.message[2] = LibraryName[library]
            /\ loader.modules[library] = NoModule
       /\ (Settled(library, "fallbackUrl") /\ loader.net[Request(library, "fallbackUrl")]) =>
            /\ loader.modules[library] = Module(library, "fallbackUrl")
            /\ \A i \in DOMAIN loader.surfaced : loader.surfaced[i] # aggregated

\* C16 witness: Three.js came from its fallback, and both imports of Rapier
\* failed.
C16_Witness ==
  /\ loader.pc = "failed"
  /\ loader.modules["THREE"] = Module("THREE", "fallbackUrl")
  /\ RequestsFor("RAPIER") = <<Request("RAPIER", "url"), Request("RAPIER", "fallbackUrl")>>

----------------------------------------------------------------------------
(* The controller's operations on the body *)

\* C25: reset(x, y, z) changes only the body's translation, to (x, y, z), and
\* its linear and angular velocity, to zero; the orientation is left as it
\* was, so a re-rolled die starts from the orientation in which it last lay.
C25_ResetKeepsOrientation ==
  [][last'.handler = "rollDice" =>
       \A d \in Dice :
         /\ body'[d].rotation = body[d].rotation
         /\ \A i \in DOMAIN calls' :
              (calls'[i].op = "reset" /\ calls'[i].die = d) =>
                calls'[i].after = [body[d] EXCEPT !.translation = calls'[i].args,
                                                  !.linvel = ZeroVector,
                                                  !.angvel = ZeroVector]]_vars

\* C25 witness: a roll of dice that lay turned, each in its own orientation,
\* and still lie so.
C25_Witness ==
  /\ last.handler = "rollDice"
  /\ body[0].rotation # IdentityQuaternion
  /\ body[1].rotation # body[0].rotation
  /\ \A d \in Dice : body[d].rotation = mesh[d].quaternion

----------------------------------------------------------------------------
(* One die controller, its operations called in any order between steps of    *)
(* the world, with PHYSICS.dice.debug set or not                              *)

\* impulses are given to a die slower than MaxPush tenths of a unit on the axis
MaxPush == 1

\* the impulse and the torque impulse given: 0.1 along x
Push == Vector3(Scale \div 10, 0, 0)

\* where reset puts the die
Place == Vector3(10 * Scale, 8 * Scale, 10 * Scale)

StepAndUpdate(d) ==
  /\ \E stepped \in StepOutcomes :
       /\ body' = [body EXCEPT ![d] = stepped]
       /\ mesh' = [mesh EXCEPT ![d] = updateMesh(stepped)]
  /\ last' = Handler("step", <<>>)
  /\ calls' = <<Call("step", NoDie, ZeroVector, newBody)>>
  /\ logged' = <<>>
  /\ result' = NoResult
  /\ UNCHANGED <<app, faceNumbers, light, browser, assetVars>>

\* world.step(), as far as die d goes
Step(d) ==
  /\ \E stepped \in StepOutcomes : body' = [body EXCEPT ![d] = stepped]
  /\ last' = Handler("step", <<>>)
  /\ calls' = <<Call("step", NoDie, ZeroVector, newBody)>>
  /\ logged' = <<>>
  /\ result' = NoResult
  /\ UNCHANGED <<app, faceNumbers, mesh, light, browser, assetVars>>

\* die.reset(x, y, z)
Reset(d) ==
  /\ body' = [body EXCEPT ![d] = reset(@, Place.x, Place.y, Place.z)]
  /\ last' = Handler("reset", <<>>)
  /\ calls' = <<Call("reset", d, Place, body'[d])>>
  /\ logged' = <<>>
  /\ result' = NoResult
  /\ UNCHANGED <<app, faceNumbers, mesh, light, browser, assetVars>>

\* die.applyImpulse(x, y, z)
ApplyImpulse(d) ==
  /\ Abs(body[d].linvel.x) < MaxPush * (Scale \div 10)
  /\ body' = [body EXCEPT ![d] = applyImpulse(@, Push.x, Push.y, Push.z)]
  /\ last' = Handler("applyImpulse", <<>>)
  /\ calls' = <<Call("applyImpulse", d, Push, body'[d])>>
  /\ logged' = <<>>
  /\ result' = NoResult
  /\ UNCHANGED <<app, faceNumbers, mesh, light, browser, assetVars>>

\* die.applyTorque(x, y, z)
ApplyTorque(d) ==
  /\ Abs(body[d].angvel.x) < MaxPush * (Scale \div 10)
  /\ body' = [body EXCEPT ![d] = applyTorque(@, Push.x, Push.y, Push.z)]
  /\ last' = Handler("applyTorque", <<>>)
  /\ calls' = <<Call("applyTorque", d, Push, body'[d])>>
  /\ logged' = <<>>
  /\ result' = NoResult
  /\ UNCHANGED <<app, faceNumbers, mesh, light, browser, assetVars>>

\* the dice as createDice returns them; the configuration's debug flag is set
\* or not
InitController ==
  /\ app = "main"
  /\ debug \in BOOLEAN
  /\ InitCreated
  /\ body = [d \in Dice |-> newBody]

NextController ==
  \/ Step(0)
  \/ Update(0)
  \/ Reset(0)
  \/ ApplyImpulse(0)
  \/ ApplyTorque(0)
  \/ GetValue(0)

SpecController == InitController /\ [][NextController]_vars

\* C21: with PHYSICS.dice.debug set, update() logs the die's value exactly on
\* the frames on which the die is at rest (both speeds below their thresholds)
\* once the mesh is synchronised, and the value logged is the face resolved
\* from the synchronised mesh; with the flag not set, update() logs nothing.
C21_LogsIffAtRest ==
  last.handler = "update" =>
    \A i \in DOMAIN calls :
      LET d == calls[i].die
      IN IF debug /\ isSettled(body[d])
         THEN logged = <<[die |-> d, value |-> getValue(mesh[d], faceNumbers[d])]>>
         ELSE logged = <<>>

\* C24: getValue() is a function of the mesh quaternion, which only update()
\* changes: before any update it is 2, the value for the identity orientation;
\* world.step(), reset, applyImpulse and applyTorque leave it as it was; just
\* after update() it is the face resolved from the body's current rotation.
C24_ValueChangesOnlyInUpdate ==
  /\ \A d \in Dice : getValue(mesh[d], faceNumbers[d]) = Num(2)
  /\ [][/\ last'.handler \in {"step", "reset", "applyImpulse", "applyTorque"} =>
             \A d \in Dice :
               /\ mesh'[d].quaternion = mesh[d].quaternion
               /\ getValue(mesh'[d], faceNumbers'[d]) = getValue(mesh[d], faceNumbers[d])
        /\ last'.handler = "update" =>
             \A i \in DOMAIN calls' :
               getValue(mesh'[calls'[i].die], faceNumbers'[calls'[i].die])
                 = getCurrentValue(body'[calls'[i].die].rotation, faceNumbers'[calls'[i].die])
        /\ result'.op = "getValue" =>
             /\ result'.value = getValue(mesh[result'.die], faceNumbers[result'.die])
             /\ mesh' = mesh]_vars

\* the body has been stepped into another orientation, reset and pushed since
\* the last update(), and getValue() answers the value of the orientation last
\* synchronised, not that of the body's rotation
C24_Witness ==
  /\ result.op = "getValue"
  /\ result.die = 0
  /\ body[0].rotation # mesh[0].quaternion
  /\ body[0].translation = Place
  /\ body[0].linvel = Push
  /\ result.value # getCurrentValue(body[0].rotation, faceNumbers[0])
  /\ result.value # Num(2)

----------------------------------------------------------------------------
(* Dice face textures without a 2D canvas context *)

\* C22: createDiceFaceTexture returns a texture whether or not a 2D canvas
\* context can be obtained, and never throws for the lack of one: every call
\* has returned, and the cache holds, a texture with the pips drawn, or
\* createFallbackTexture's canvas with the value written on it, or, when that
\* canvas has no context either, the built-in data-URI texture.
C22_AlwaysATexture ==
  /\ textureCalls.returned.kind \in {"pips", "text", "data"}
  /\ textureCalls.returned.object[1] = textureCalls.value
  /\ textureCalls.returned.object[2] = textureCalls.color
  /\ \A k \in DOMAIN diceFaceCache :
       /\ diceFaceCache[k].kind \in {"pips", "text", "data"}
       /\ diceFaceCache[k].kind = "pips" => diceFaceCache[k].pips # <<>>
       /\ diceFaceCache[k].kind = "text" =>
            /\ diceFaceCache[k].text = NumberToString(diceFaceCache[k].object[1])
            /\ diceFaceCache[k].pips = <<>>
       /\ diceFaceCache[k].kind = "data" =>
            /\ diceFaceCache[k].text = <<>>
            /\ diceFaceCache[k].pips = <<>>

\* a call made when neither canvas had a context returned the data-URI
\* texture, and the cache holds a fallback canvas texture from an earlier call
C22_Witness ==
  /\ ~textureCalls.cached
  /\ textureCalls.returned.kind = "data"
  /\ \E k \in DOMAIN diceFaceCache : diceFaceCache[k].kind = "text"

----------------------------------------------------------------------------
(* The pips of the dice faces: textures.js asked for the texture of any face  *)
(* value, in a browser that gives its canvases a 2D context, before the       *)
(* application has made its dice                                              *)

\* the face values asked for: 0 .. MaxFace
MaxFace == 7

\* the libraries are loaded, no die has been created, the cache is empty
InitPips ==
  /\ app \in {"main", "alt"}
  /\ faceNumbers = <<>>
  /\ body = <<>>
  /\ mesh = <<>>
  /\ light = <<>>
  /\ last = Handler("none", <<>>)
  /\ calls = <<>>
  /\ result = NoResult
  /\ browser = Page(FALSE, "none")
  /\ diceFaceCache = <<>>
  /\ textureCalls = NoTextureCall
  /\ probe = NoProbe
  /\ debug = FALSE
  /\ logged = <<>>
  /\ screen = LoadingScreen
  /\ registered = {}
  /\ loader = Loaded

\* a call createDiceFaceTexture(THREE, value, color) with any number for value
CreateFace ==
  \E value \in 0 .. MaxFace :
    /\ createDiceFaceTexture(value, DICE_COLORS[1], <<TRUE, TRUE>>)
    /\ UNCHANGED <<app, faceNumbers, body, mesh, light, last, calls, result,
                   browser, loader, probe, debug, logged, screen, registered>>

NextPips == CreateFace

SpecPips == InitPips /\ [][NextPips]_vars

\* C23: for a face value v of 1..6 generateDiceFaceTexture draws exactly v
\* pips, no two of them at the same position; for any other value it draws
\* exactly one pip, the one it draws for value 1 (at the centre).
C23_PipsOfValue ==
  \A t \in {diceFaceCache[k] : k \in DOMAIN diceFaceCache} \cup {textureCalls.returned} :
    t.kind = "pips" =>
      /\ t.object[1] \in 1 .. 6 =>
           /\ Len(t.pips) = t.object[1]
           /\ \A i, j \in DOMAIN t.pips : i # j => t.pips[i] # t.pips[j]
      /\ t.object[1] \notin 1 .. 6 =>
           /\ Len(t.pips) = 1
           /\ t.pips = generateDiceFaceTexture(1, t.object[2], 1, <<TRUE, TRUE>>).pips
      /\ t.object[1] = 1 => t.pips = <<<<center, center>>>>

\* textures have been generated for every value of 1..6 and for 0 and 7
C23_Witness ==
  /\ \A v \in 0 .. 7 : cacheKey(v, DICE_COLORS[1]) \in DOMAIN diceFaceCache
  /\ textureCalls.value = 7
  /\ textureCalls.returned.kind = "pips"

----------------------------------------------------------------------------
(* initApp: progress, the loading screen, errors and what is registered *)

\* the step of initApp named name
stepOf(l, name) == l.steps[CHOOSE i \in DOMAIN l.steps : l.steps[i].name = name]

\* C26: the percentages reported to trackProgress never decrease, a successful
\* initApp has reported 5, 20, 25, 30, 50, 70, 90 and 100 in this order, and
\* the loading screen is hidden only in a successful initApp, after the
\* progress of 100 has been reported.
C26_ProgressThenHidden ==
  /\ \A i, j \in DOMAIN loader.progress : i <= j => loader.progress[i] <= loader.progress[j]
  /\ loader.pc = "running" => loader.progress = <<5, 20, 25, 30, 50, 70, 90, 100>>
  /\ "hidden" \in stepNames(loader) =>
       /\ stepOf(loader, "hidden").at >= 1
       /\ loader.progress[stepOf(loader, "hidden").at] = 100
  /\ screen.display = "none" =>
       /\ "hidden" \in stepNames(loader)
       /\ loader.pc = "running"
       /\ screen.content = ProgressBar

\* initApp has returned, one of the libraries having come from its fallback
\* source; the loading screen is hidden and the first roll has been made
C26_Witness ==
  /\ loader.pc = "running"
  /\ loader.modules["THREE"] = Module("THREE", "fallbackUrl")
  /\ screen.display = "none"
  /\ browser.event = "timeout"

\* C27: when loadDependencies has failed because a library could be loaded from
\* neither source, the message on the loading screen once initApp has finished
\* is the loader's 'Loading Error' naming that library; no other message has
\* replaced it.
C27_LoadingErrorRemains ==
  \A library \in Libraries :
    (/\ loader.pc = "stopped"
     /\ loader.thrown = Error(BothFailedMessage(LibraryName[library])))
      => screen.content =
           ErrorMessage("Loading Error",
                        IF library = "THREE"
                        THEN "Failed to load 3D rendering engine (Three.js)."
                        ELSE "Failed to load physics engine (Rapier).")

\* C28: the roll listeners, the timer of the first roll and the animation loop
\* are registered only once the dependencies are loaded, the world, the floor
\* and the dice are made and the progress of 100 is reported; if one of these
\* steps fails, nothing is registered, no handler ever runs, so no die is reset
\* or given an impulse and the world is never stepped.
C28_RegisteredAfterSetup ==
  /\ \A c \in stepNames(loader) \cap {"click", "touchstart", "timeout", "frame"} :
       /\ \A l \in Libraries : loader.modules[l] # NoModule
       /\ \A earlier \in {"world", "floor", "dice"} :
            \E i, j \in DOMAIN loader.steps :
              /\ i < j
              /\ loader.steps[i].name = earlier
              /\ loader.steps[j].name = c
       /\ stepOf(loader, c).at >= 1
       /\ loader.progress[stepOf(loader, c).at] = 100
  /\ registered \subseteq stepNames(loader)
  /\ loader.pc = "stopped" =>
       /\ registered = {}
       /\ ~browser.timer
       /\ browser.event = "none"
  /\ loader.pc # "running" =>
       /\ last.handler = "none"
       /\ calls = <<>>
       /\ body = <<>>

\* initApp has returned and a click has rolled the dice
C28_Witness ==
  /\ loader.pc = "running"
  /\ browser.event = "click"
  /\ last.handler = "rollDice"
  /\ \E i \in DOMAIN calls : calls[i].op = "applyImpulse"
====
